---- MODULE Spec2Model ----
(***************************************************************************)
(* Model of chromatic_aberration_correction.pyx: one call of               *)
(* correct_chromatic_aberration as a sequence of parallel row loops        *)
(* (prange), each row of a loop being one step of a row worker.            *)
(*                                                                         *)
(* Numbers.  A float32 sample x is the integer x * Scale; products and     *)
(* quotients are rounded to the nearest grid value, as float arithmetic    *)
(* rounds to the nearest float.  The grid is fine enough for the luma, the *)
(* prefilter and the gradients of images of half levels to be exact.       *)
(* eps (1e-8 in the source) is far below the grid: a weight 1 / (d + eps)  *)
(* is kept as a pair, its multiple of 1 / eps (d = 0) and its grid value   *)
(* (d > 0, where eps changes nothing the grid can show).                   *)
(*                                                                         *)
(* Comparisons.  The grid value of a cell that rounded arithmetic filled   *)
(* is not the float of the code, only near it, so the grid does not decide *)
(* a test of the code on values that lie within Tol of each other when one *)
(* of them is such a cell.  A test the grid does not decide has both       *)
(* outcomes: where the two branches store different values, the body of a  *)
(* loop is the set of the memories it can leave, one for each way its      *)
(* tests can come out, and a step of a worker takes any of them.  A cell   *)
(* is exact when its float is the float32 nearest its grid value: what     *)
(* np.empty left, a zero, a difference that float32 does not round.  The   *)
(* grid orders exact cells as the code orders them.                        *)
(*                                                                         *)
(* Memory.  np.empty returns a buffer whose cells hold whatever the heap   *)
(* held: Garbage(heap, i, j), with heap chosen nondeterministically.       *)
(***************************************************************************)
EXTENDS Integers, Sequences, FiniteSets, TLC

VARIABLES I_in, cfg, heap, pc, cur, todo, mem, mem0, written, result

vars == <<I_in, cfg, heap, pc, cur, todo, mem, mem0, written, result>>

---------------------------------------------------------------------------
(* Fixed-point arithmetic                                                  *)

Scale == 2000

\* 1 / eps, for eps = 1e-8
InvEps == 100000000

\* n hundredths on the grid
Pct(n) == n * (Scale \div 100)

MaxJunk == 1

fabs(x) == IF x < 0 THEN -x ELSE x

fmin(a, b) == IF a < b THEN a ELSE b

fmax(a, b) == IF a > b THEN a ELSE b

\* a / b rounded to the nearest integer, b > 0
RDiv(a, b) ==
    LET n == IF a >= 0 THEN a ELSE -a
        q == (n \div b) + (IF 2 * (n % b) >= b THEN 1 ELSE 0)
    IN IF a >= 0 THEN q ELSE -q

FMul(a, b) == RDiv(a * b, Scale)

\* a / b on the grid, b > 0: the whole part and the rest are scaled apart
FDiv(a, b) ==
    LET n == IF a >= 0 THEN a ELSE -a
        q == (n \div b) * Scale + RDiv((n % b) * Scale, b)
    IN IF a >= 0 THEN q ELSE -q

SetMax(S) == CHOOSE x \in S : \A y \in S : y <= x

SetMin(S) == CHOOSE x \in S : \A y \in S : x <= y

RECURSIVE SumTo(_, _)
\* f[0] + ... + f[n-1], accumulated in index order
SumTo(f, n) == IF n = 0 THEN 0 ELSE SumTo(f, n - 1) + f[n - 1]


RECURSIVE Product(_, _)
\* the functions f on 0 .. n-1 with f[l] in F[l]
Product(F, n) ==
    IF n = 0 THEN {[l \in {} |-> 0]}
    ELSE {[l \in 0 .. n - 1 |-> IF l = n - 1 THEN p[2] ELSE p[1][l]] :
            p \in Product(F, n - 1) \X F[n - 1]}

---------------------------------------------------------------------------
(* Scalar helpers of the source                                            *)

sign(input) == IF input > 0 THEN 1 ELSE IF input < 0 THEN -1 ELSE 0

\* clip(), s the sign of K_ref as its tests K_ref > 0 and K_ref < 0 see it
clip(K, K_ref, s) == IF s > 0 THEN fmin(K, K_ref)
                     ELSE IF s < 0 THEN fmax(K, K_ref)
                     ELSE K_ref

---------------------------------------------------------------------------
(* Planes and the heap                                                     *)

Cells(r, c) == (0 .. r - 1) \X (0 .. c - 1)

NoPlane == [p \in {} |-> 0]

\* content of a cell of a buffer np.empty has just returned
Garbage(h, i, j) == IF (i + j) % 2 = 0 THEN Pct(60) * h ELSE -(Pct(60) * h)

Empty(h, r, c) == [p \in Cells(r, c) |-> Garbage(h, p[1], p[2])]

\* plane P with row i replaced by the values f[j] for the columns j of J
SetRow(P, i, J, f) ==
    [p \in DOMAIN P |-> IF p[1] = i /\ p[2] \in J THEN f[p[2]] ELSE P[p]]

M == I_in.M

N == I_in.N

---------------------------------------------------------------------------
(* The call as a sequence of parallel loops.  An instruction is one prange *)
(* loop; alloc lists the buffers np.empty returns between the previous     *)
(* loop and this one, as <<name, rows, columns>>.                          *)

Ins0 == [op |-> "-", src |-> "-", dst |-> "-", X |-> "-", G |-> "-", Y |-> "-",
         L |-> 0, par |-> 0, K |-> "-", KTI |-> "-", Xmax |-> "-", Xmin |-> "-",
         Xmaxv |-> "-", Xminv |-> "-", r |-> 0, c |-> 0, alloc |-> {}]

Planes(names, r, c) == {<<b, r, c>> : b \in names}

Split ==
    << [Ins0 EXCEPT !.op = "split", !.r = M, !.c = N,
                    !.alloc = Planes({"R_in", "G_in", "B_in", "Y_in"}, M, N)] >>

Transpose(src, dst, r, c, pre) ==
    << [Ins0 EXCEPT !.op = "transpose", !.src = src, !.dst = dst, !.r = r, !.c = c,
                    !.alloc = pre \cup {<<dst, c, r>>}] >>

Grad(src, dst, r, c, pre) ==
    << [Ins0 EXCEPT !.op = "grad", !.src = src, !.dst = dst, !.r = r, !.c = c,
                    !.alloc = pre \cup {<<dst, r, c>>}] >>

\* the scratch arrays of ti_and_ca_filtering1D
FilterScratch(r, L) ==
    Planes({"X_TImax", "X_TImin", "X_TI", "X_pf", "K_TI", "W_K"}, r, 2 * L + 1)
    \cup Planes({"W_K_sum", "X_Emax", "X_Emin", "X_Wmax", "X_Wmin"}, r, 1)

\* ti_and_ca_filtering1D on r x c planes: two gradients, then the main loop
Filter1D(X, G, Y, L, alpha, K, KTI, Xmax, Xmin, r, c, pre) ==
    Grad(X, "grad_X", r, c, pre) \o Grad(G, "grad_G", r, c, {}) \o
    << [Ins0 EXCEPT !.op = "filter", !.X = X, !.G = G, !.Y = Y, !.L = L,
                    !.par = alpha, !.K = K, !.KTI = KTI, !.Xmax = Xmax,
                    !.Xmin = Xmin, !.r = r, !.c = c,
                    !.alloc = FilterScratch(r, L)] >>

HorizontalPass(X, alpha, K, KTI, Xmax, Xmin) ==
    Filter1D(X, "G_in", "Y_in", cfg.L_hor, alpha, K, KTI, Xmax, Xmin, M, N,
             Planes({K, KTI, Xmax, Xmin}, M, N))

VerticalPass(X, alpha, K, KTI, Xmax, Xmin) ==
    Transpose(X, "Xt", M, N, Planes({K, KTI, Xmax, Xmin}, N, M)) \o
    Transpose("G_in", "Gt", M, N, {}) \o
    Transpose("Y_in", "Yt", M, N, {}) \o
    Filter1D("Xt", "Gt", "Yt", cfg.L_ver, alpha, K, KTI, Xmax, Xmin, N, M, {})

TransposeBack ==
    Transpose("K_r_verT", "K_r_ver", N, M, {}) \o
    Transpose("K_b_verT", "K_b_ver", N, M, {}) \o
    Transpose("K_rTI_verT", "K_rTI_ver", N, M, {}) \o
    Transpose("K_bTI_verT", "K_bTI_ver", N, M, {}) \o
    Transpose("R_max_verT", "R_max_ver", N, M, {}) \o
    Transpose("B_max_verT", "B_max_ver", N, M, {}) \o
    Transpose("R_min_verT", "R_min_ver", N, M, {}) \o
    Transpose("B_min_verT", "B_min_ver", N, M, {})

\* K_x = K_x_ver is the same buffer: the merge assigns the horizontal value
\* to the cells of the vertical plane where its test holds
MergeFC(hor, ver) ==
    << [Ins0 EXCEPT !.op = "mergeFC", !.src = hor, !.dst = ver, !.r = M, !.c = N] >>

MergeTI(KTIhor, KTIver, maxhor, maxver, minhor, minver) ==
    << [Ins0 EXCEPT !.op = "mergeTI", !.src = KTIhor, !.dst = KTIver,
                    !.Xmax = maxhor, !.Xmaxv = maxver,
                    !.Xmin = minhor, !.Xminv = minver, !.r = M, !.c = N] >>

Merge ==
    MergeFC("K_b_hor", "K_b_ver") \o MergeFC("K_r_hor", "K_r_ver") \o
    MergeTI("K_bTI_hor", "K_bTI_ver", "B_max_hor", "B_max_ver", "B_min_hor", "B_min_ver") \o
    MergeTI("K_rTI_hor", "K_rTI_ver", "R_max_hor", "R_max_ver", "R_min_hor", "R_min_ver")

HorScratch == Planes({"Xp_max_hor", "Xp_min_hor", "X_Emax_hor", "X_Emin_hor",
                      "X_Wmax_hor", "X_Wmin_hor"}, M, 1)

VerScratch == Planes({"Xp_max_ver", "Xp_min_ver", "X_Emax_ver", "X_Emin_ver",
                      "X_Wmax_ver", "X_Wmin_ver"}, N, 1)

Arbitration(K, KTI, X, Xmax, Xmin, beta, K_out, pre) ==
    << [Ins0 EXCEPT !.op = "contrastHor", !.X = X, !.G = "G_in", !.L = cfg.L_hor,
                    !.par = beta, !.dst = "X_contrast_hor", !.r = M, !.c = N,
                    !.alloc = pre \cup {<<"X_contrast_hor", M, N>>} \cup HorScratch] >> \o
    Transpose(X, "Xt", M, N, {<<"X_contrast_verT", N, M>>} \cup VerScratch) \o
    Transpose("G_in", "Gt", M, N, {}) \o
    << [Ins0 EXCEPT !.op = "contrastVer", !.X = "Xt", !.G = "Gt", !.L = cfg.L_ver,
                    !.par = beta, !.dst = "X_contrast_verT", !.r = N, !.c = M] >> \o
    Transpose("X_contrast_verT", "X_contrast_ver", N, M, {}) \o
    << [Ins0 EXCEPT !.op = "contrastMerge", !.src = "X_contrast_hor",
                    !.dst = "X_contrast_ver", !.r = M, !.c = N] >> \o
    << [Ins0 EXCEPT !.op = "blend", !.src = "X_contrast_ver", !.K = K, !.KTI = KTI,
                    !.Xmax = Xmax, !.Xmin = Xmin, !.dst = K_out, !.r = M, !.c = N,
                    !.alloc = {<<"alpha_K", M, 1>>}] >>

Reconstruct ==
    << [Ins0 EXCEPT !.op = "reconstruct", !.r = M, !.c = N,
                    !.alloc = {<<"I_out", M, 3 * N>>}] >>

Program ==
    Split \o
    HorizontalPass("R_in", cfg.alpha_R, "K_r_hor", "K_rTI_hor", "R_max_hor", "R_min_hor") \o
    HorizontalPass("B_in", cfg.alpha_B, "K_b_hor", "K_bTI_hor", "B_max_hor", "B_min_hor") \o
    VerticalPass("R_in", cfg.alpha_R, "K_r_verT", "K_rTI_verT", "R_max_verT", "R_min_verT") \o
    VerticalPass("B_in", cfg.alpha_B, "K_b_verT", "K_bTI_verT", "B_max_verT", "B_min_verT") \o
    TransposeBack \o
    Merge \o
    Arbitration("K_r_ver", "K_rTI_ver", "R_in", "R_max_ver", "R_min_ver", cfg.beta_R,
                "K_rout", Planes({"K_rout", "K_bout"}, M, N)) \o
    Arbitration("K_b_ver", "K_bTI_ver", "B_in", "B_max_ver", "B_min_ver", cfg.beta_B,
                "K_bout", {}) \o
    Reconstruct

\* the buffers whose contents the model keeps; the other scratch arrays are
\* written before they are read and appear in the access sets only
Bufs == {"R_in", "G_in", "B_in", "Y_in", "grad_X", "grad_G", "K_TI", "Xt", "Gt", "Yt",
         "K_r_hor", "K_rTI_hor", "R_max_hor", "R_min_hor",
         "K_b_hor", "K_bTI_hor", "B_max_hor", "B_min_hor",
         "K_r_verT", "K_rTI_verT", "R_max_verT", "R_min_verT",
         "K_b_verT", "K_bTI_verT", "B_max_verT", "B_min_verT",
         "K_r_ver", "K_rTI_ver", "R_max_ver", "R_min_ver",
         "K_b_ver", "K_bTI_ver", "B_max_ver", "B_min_ver",
         "X_contrast_hor", "X_contrast_verT", "X_contrast_ver",
         "K_rout", "K_bout", "I_out"}

\* how a cell of a plane the tests compare got its value: Kind[b] is the
\* plane that holds, for every cell of b, "exact" where the float of the cell
\* is the float32 nearest its grid value and "rounded" where arithmetic that
\* rounds filled it.  For a cell of the luma the plane holds the three samples
\* line 126 computed it from: two lumas are the same float when they come
\* from the same samples.  Kept is all the model keeps
Kind == [Y_in |-> "Y_in_kind", Yt |-> "Yt_kind", K_TI |-> "K_TI_kind",
         K_r_hor |-> "K_r_hor_kind", K_b_hor |-> "K_b_hor_kind",
         K_r_verT |-> "K_r_verT_kind", K_b_verT |-> "K_b_verT_kind",
         K_r_ver |-> "K_r_ver_kind", K_b_ver |-> "K_b_ver_kind",
         K_rTI_hor |-> "K_rTI_hor_kind", K_bTI_hor |-> "K_bTI_hor_kind",
         K_rTI_verT |-> "K_rTI_verT_kind", K_bTI_verT |-> "K_bTI_verT_kind",
         K_rTI_ver |-> "K_rTI_ver_kind", K_bTI_ver |-> "K_bTI_ver_kind",
         X_contrast_hor |-> "X_contrast_hor_kind",
         X_contrast_verT |-> "X_contrast_verT_kind",
         X_contrast_ver |-> "X_contrast_ver_kind"]

Kept == Bufs \cup {Kind[b] : b \in DOMAIN Kind}

\* the distance in grid units within which two values, one of them rounded,
\* count as a near tie: the prefilter of lines 395 and 399 rounds three
\* products to half a grid unit each, and the quotient of line 434 is a mean
\* of such values
Tol == 4

\* the weights of line 425 are rounded too, which moves the quotient of line
\* 434 in proportion to its magnitude: two values of which one at least is
\* rounded are compared on the grid only when they are more than Slack apart
Slack(x, y) == Tol + (fabs(x) + fabs(y)) \div Scale

\* a denominator of lines 423-425 that the grid gives as at most DenomMin
\* units has lost its leading digits to the rounding of its terms
DenomMin == 40

\* samples that are multiples of Dyadic grid units are multiples of 1 / 16,
\* which float32 holds and subtracts without rounding
Dyadic == Scale \div 16

---------------------------------------------------------------------------
(* Loop bodies.  m is the memory before the row is processed, ins the      *)
(* loop, i the row, j the column, l the position in the window.            *)

At(m, b, i, j) == m[b][<<i, j>>]

\* how cell (i, j) of b got its value
KindAt(m, b, i, j) == m[Kind[b]][<<i, j>>]

\* the outcomes of the float test x < y for grid values x and y, of which one
\* at least is rounded
NearLess(x, y) ==
    IF x - y < -Slack(x, y) THEN {TRUE}
    ELSE IF x - y > Slack(x, y) THEN {FALSE}
    ELSE BOOLEAN

\* the float32 difference a - b of two samples is the float32 nearest the
\* grid difference: it is zero, or one of the samples is zero, or both are
\* multiples of 1 / 16
ExactDiff(a, b) ==
    a = b \/ a = 0 \/ b = 0 \/ (a % Dyadic = 0 /\ b % Dyadic = 0)

\* the outcomes of fabs(va) < fabs(vb) for two values of kinds ka and kb:
\* exact floats are ordered as the grid orders them
AbsLess(va, ka, vb, kb) ==
    IF ka = "exact" /\ kb = "exact" THEN {fabs(va) < fabs(vb)}
    ELSE NearLess(fabs(va), fabs(vb))

\* the outcomes of va > vb for two values of kinds ka and kb
More(va, ka, vb, kb) ==
    IF ka = "exact" /\ kb = "exact" THEN {va > vb}
    ELSE NearLess(vb, va)

\* the outcomes of fabs(a[ia, ja]) < fabs(b[ib, jb]), the test of lines 170,
\* 177, 187, 198
Smaller(m, a, ia, ja, b, ib, jb) ==
    AbsLess(At(m, a, ia, ja), KindAt(m, a, ia, ja), At(m, b, ib, jb), KindAt(m, b, ib, jb))

\* the outcomes of a[i, j] > b[i, j], the test of line 576
Larger(m, a, b, i, j) ==
    More(At(m, a, i, j), KindAt(m, a, i, j), At(m, b, i, j), KindAt(m, b, i, j))

\* the rows prange hands to the workers
Rows(ins) == IF ins.op \in {"filter", "contrastHor", "contrastVer"}
             THEN ins.L .. ins.r - ins.L - 1
             ELSE 0 .. ins.r - 1

\* the columns the inner range visits
Cols(ins) == IF ins.op \in {"filter", "contrastHor", "contrastVer"}
             THEN ins.L .. ins.c - ins.L - 1
             ELSE IF ins.op = "grad" THEN 1 .. ins.c - 1
             ELSE 0 .. ins.c - 1

LL(ins) == 2 * ins.L + 1

(* Channel split, lines 121-126 *)
Luma(R, G, B) == RDiv(299 * R + 587 * G + 114 * B, 1000)

SplitRow(m, ins, i) ==
    LET J == Cols(ins)
        px(j, ch) == I_in.px[<<i, j, ch>>]
    IN [m EXCEPT !["R_in"] = SetRow(@, i, J, [j \in J |-> px(j, 0)]),
                 !["G_in"] = SetRow(@, i, J, [j \in J |-> px(j, 1)]),
                 !["B_in"] = SetRow(@, i, J, [j \in J |-> px(j, 2)]),
                 !["Y_in"] = SetRow(@, i, J,
                                [j \in J |-> Luma(px(j, 0), px(j, 1), px(j, 2))]),
                 ![Kind["Y_in"]] = SetRow(@, i, J,
                                [j \in J |-> <<px(j, 0), px(j, 1), px(j, 2)>>])]

(* transpose, lines 62-64 *)
TransposeRow(m, ins, i) ==
    LET t == [m EXCEPT ![ins.dst] =
                 [p \in DOMAIN @ |-> IF p[2] = i /\ p[1] \in Cols(ins)
                                     THEN At(m, ins.src, i, p[1]) ELSE @[p]]]
    IN IF ins.dst \in DOMAIN Kind
       THEN [t EXCEPT ![Kind[ins.dst]] =
                [p \in DOMAIN @ |-> IF p[2] = i /\ p[1] \in Cols(ins)
                                    THEN KindAt(m, ins.src, i, p[1]) ELSE @[p]]]
       ELSE t

(* grad, lines 240-242 *)
GradRow(m, ins, i) ==
    LET J == Cols(ins)
    IN [m EXCEPT ![ins.dst] =
           SetRow(@, i, J, [j \in J |-> At(m, ins.src, i, j) - At(m, ins.src, i, j - 1)])]

(* ti_and_ca_filtering1D: envelope, lines 367-390 *)
X_Emax(m, ins, i, j) ==
    SetMax({At(m, ins.X, i, j)} \cup {At(m, ins.X, i, j + l + 1) : l \in 0 .. ins.L - 1})

X_Emin(m, ins, i, j) ==
    SetMin({At(m, ins.X, i, j)} \cup {At(m, ins.X, i, j + l + 1) : l \in 0 .. ins.L - 1})

X_Wmax(m, ins, i, j) ==
    SetMax({At(m, ins.X, i, j)} \cup {At(m, ins.X, i, j - ins.L + l) : l \in 0 .. ins.L - 1})

X_Wmin(m, ins, i, j) ==
    SetMin({At(m, ins.X, i, j)} \cup {At(m, ins.X, i, j - ins.L + l) : l \in 0 .. ins.L - 1})

\* the grid decides the test of line 385 as float32 does: the two grid
\* differences are not the same, or float32 rounds neither, or they are the
\* differences of the same samples
EnvelopeSure(m, ins, i, j) ==
    \/ X_Emax(m, ins, i, j) - X_Wmin(m, ins, i, j)
           # X_Wmax(m, ins, i, j) - X_Emin(m, ins, i, j)
    \/ /\ ExactDiff(X_Emax(m, ins, i, j), X_Wmin(m, ins, i, j))
       /\ ExactDiff(X_Wmax(m, ins, i, j), X_Emin(m, ins, i, j))
    \/ /\ X_Emax(m, ins, i, j) = X_Wmax(m, ins, i, j)
       /\ X_Wmin(m, ins, i, j) = X_Emin(m, ins, i, j)

\* the outcomes of the test of line 385
EastMaxWestMin(m, ins, i, j) ==
    IF EnvelopeSure(m, ins, i, j)
    THEN {(X_Emax(m, ins, i, j) - X_Wmin(m, ins, i, j))
              >= (X_Wmax(m, ins, i, j) - X_Emin(m, ins, i, j))}
    ELSE BOOLEAN

\* lines 386-390, the test of line 385 having given e
X_max(m, ins, i, j, e) ==
    IF e THEN X_Emax(m, ins, i, j) ELSE X_Wmax(m, ins, i, j)

X_min(m, ins, i, j, e) ==
    IF e THEN X_Wmin(m, ins, i, j) ELSE X_Emin(m, ins, i, j)

(* transient improvement at position l of the window of (i, j), lines 394-412 *)
Bright(m, ins, i, j) == At(m, ins.X, i, j) > At(m, ins.G, i, j)

X_pf(m, ins, i, j, l, e) ==
    LET x == At(m, ins.X, i, j + l - ins.L)
    IN IF Bright(m, ins, i, j)
       THEN FMul(cfg.rho[1], X_max(m, ins, i, j, e)) + FMul(cfg.rho[2], x)
                + FMul(cfg.rho[3], X_min(m, ins, i, j, e))
       ELSE FMul(cfg.rho[1], X_min(m, ins, i, j, e)) + FMul(cfg.rho[2], x)
                + FMul(cfg.rho[3], X_max(m, ins, i, j, e))

X_TImax(m, ins, i, j, l, e) ==
    IF Bright(m, ins, i, j)
    THEN At(m, ins.X, i, j + l - ins.L)
    ELSE fmin(X_max(m, ins, i, j, e), At(m, ins.G, i, j + l - ins.L))

X_TImin(m, ins, i, j, l, e) ==
    IF Bright(m, ins, i, j)
    THEN fmax(X_min(m, ins, i, j, e), At(m, ins.G, i, j + l - ins.L))
    ELSE At(m, ins.X, i, j + l - ins.L)

\* lines 404-409 store a bound, which is a sample, and the grid tells which:
\* the bounds are equal, or the prefiltered value pf, which is rounded, is
\* above hi or below both bounds by more than Tol
Pin(pf, lo, hi) ==
    lo = hi \/ pf > hi + Tol \/ (pf < hi - Tol /\ pf < lo - Tol)

\* lines 404-409 with crossed bounds, lo above hi, store hi when pf is above
\* hi and lo otherwise: a pf that is rounded and within Tol of hi is a near
\* tie between two samples
Crossed(pf, lo, hi) == lo > hi /\ fabs(pf - hi) <= Tol

(* the prefiltered value stored without the clipping of lines 404-409 *)
X_TI_unclipped(m, ins, i, j, l, e) == {X_pf(m, ins, i, j, l, e)}

(* the values lines 404-409 can store: the one the grid gives, or either *)
(* bound at a near tie between crossed bounds                            *)
X_TI(m, ins, i, j, l, e) ==
    IF Crossed(X_pf(m, ins, i, j, l, e), X_TImin(m, ins, i, j, l, e),
               X_TImax(m, ins, i, j, l, e))
    THEN {X_TImax(m, ins, i, j, l, e), X_TImin(m, ins, i, j, l, e)}
    ELSE {IF X_pf(m, ins, i, j, l, e) > X_TImax(m, ins, i, j, l, e)
          THEN X_TImax(m, ins, i, j, l, e)
          ELSE IF X_pf(m, ins, i, j, l, e) < X_TImin(m, ins, i, j, l, e)
          THEN X_TImin(m, ins, i, j, l, e)
          ELSE X_pf(m, ins, i, j, l, e)}

\* the kind of the chroma line 412 computes from the value x of X_TI: exact
\* when x is a bound and float32 does not round its difference with the
\* green sample
K_TI_kind(m, ins, i, j, l, e, x) ==
    IF /\ \/ Crossed(X_pf(m, ins, i, j, l, e), X_TImin(m, ins, i, j, l, e),
                     X_TImax(m, ins, i, j, l, e))
          \/ Pin(X_pf(m, ins, i, j, l, e), X_TImin(m, ins, i, j, l, e),
                 X_TImax(m, ins, i, j, l, e))
       /\ ExactDiff(x, At(m, ins.G, i, j + l - ins.L))
    THEN "exact" ELSE "rounded"

(* line 412: the cells K_TI[i, l] can be, value and kind *)
K_TI(m, ins, i, j, l, e) ==
    {[v |-> x - At(m, ins.G, i, j + l - ins.L),
      kind |-> K_TI_kind(m, ins, i, j, l, e, x)] : x \in X_TI(m, ins, i, j, l, e)}

(* saving position 0 of the window instead of its centre *)
K_TI_hor_first(m, ins, i, j, e) == CHOOSE k \in K_TI(m, ins, i, j, 0, e) : TRUE

(* line 437: the centre of the window, whose bounds do not cross, so that *)
(* lines 404-409 store one value there                                    *)
K_TI_hor(m, ins, i, j, e) == CHOOSE k \in K_TI(m, ins, i, j, ins.L, e) : TRUE

\* cell l of row i of the scratch array K_TI, value and kind
Scratch(m, i, l) == [v |-> At(m, "K_TI", i, l), kind |-> KindAt(m, "K_TI", i, l)]

(* The cell K_TI[i, L] when position l of the window of (i, j) reads it      *)
(* (lines 417 and 430): it is written at position L, so the positions before *)
(* L read the cell stale, what the previous window of the row left there,   *)
(* and in the first window of the row what np.empty left there.             *)
K_TI_L(m, ins, i, j, l, e, stale) ==
    IF l >= ins.L THEN K_TI_hor(m, ins, i, j, e) ELSE stale

\* the grid gives the sign of the cell k as sign() of line 417 and clip() of
\* line 430 see it
SignSure(k) == k.kind = "exact" \/ fabs(k.v) > Tol

\* what sign() can return on the cell k
Signs(k) == IF SignSure(k) THEN {sign(k.v)} ELSE {-1, 0, 1}

\* the outcomes of fabs(K_TI[i, l]) < tau, line 417, on the cell k
Below(k) ==
    IF k.kind = "exact" \/ fabs(fabs(k.v) - cfg.tau) > Tol
    THEN {fabs(k.v) < cfg.tau}
    ELSE BOOLEAN

(* the denominator of the weight without eps, lines 423-425, k the value of *)
(* K_TI[i, l]                                                               *)
Denom(m, ins, i, j, l, k) ==
    LET c == j + l - ins.L
    IN fabs(At(m, "grad_G", i, c))
       + fmax(fabs(At(m, "grad_X", i, c)), FMul(ins.par, fabs(k)))
       + fabs(At(m, ins.Y, i, j) - At(m, ins.Y, i, c))

\* the grid gives the denominator of lines 423-425 for the cell k: it is
\* above DenomMin, or it is 0 and each of its terms is 0 in float32 too, the
\* gradients being differences of samples, the chroma exact and the two lumas
\* those of the same samples
DenomSure(m, ins, i, j, l, k) ==
    \/ Denom(m, ins, i, j, l, k.v) > DenomMin
    \/ /\ Denom(m, ins, i, j, l, k.v) = 0
       /\ ins.par = 0 \/ k.kind = "exact"
       /\ KindAt(m, ins.Y, i, j) = KindAt(m, ins.Y, i, j + l - ins.L)

\* the denominators the weight of position l is computed between: the one
\* the grid gives, or the two that lie Tol below and above it
Denoms(m, ins, i, j, l, k) ==
    IF DenomSure(m, ins, i, j, l, k)
    THEN {Denom(m, ins, i, j, l, k.v)}
    ELSE {fmax(Denom(m, ins, i, j, l, k.v) - Tol, 0), Denom(m, ins, i, j, l, k.v) + Tol}

(* false colour weight, lines 417-425, n the 0 or 1 of the sign test and d  *)
(* the denominator: the value big / eps + fin / Scale.  With a denominator  *)
(* of 0 the weight is n / eps; otherwise it is n / d on the grid.           *)
Weight(n, d) ==
    IF d = 0 THEN [big |-> n, fin |-> 0]
    ELSE [big |-> 0, fin |-> FDiv(n * Scale, d)]

(* the term line 430 adds: weight W times clipped chroma c, the value        *)
(* big / eps / Scale + fin / Scale                                          *)
Term(W, c) == [big |-> W.big * c, fin |-> FMul(W.fin, c)]

(* the sum of the pairs f[0] .. f[n-1] *)
PairSum(f, n) ==
    [big |-> SumTo([l \in 0 .. n - 1 |-> f[l].big], n),
     fin |-> SumTo([l \in 0 .. n - 1 |-> f[l].fin], n)]

(* What position l of the window of (i, j) can contribute (lines 412-431),  *)
(* ref being the cell K_TI[i, L] as the position reads it and sr its sign:  *)
(* the chroma k, the n of the sign test, the clipped chroma c and the       *)
(* denominators d.  At the centre K_TI[i, L] is K_TI[i, l] itself: the      *)
(* signs are the same and clip returns the value.                           *)
Position(m, ins, i, j, l, e, ref, sr) ==
    IF l = ins.L
    THEN {[k |-> ref, n |-> 1, c |-> ref.v, d |-> Denoms(m, ins, i, j, l, ref)]}
    ELSE {[k |-> q[1],
           n |-> IF sr = q[2] \/ q[3] THEN 1 ELSE 0,
           c |-> clip(q[1].v, ref.v, sr),
           d |-> Denoms(m, ins, i, j, l, q[1])] :
            q \in {t \in K_TI(m, ins, i, j, l, e) \X {-1, 0, 1} \X BOOLEAN :
                     t[2] \in Signs(t[1]) /\ t[3] \in Below(t[1])}}

(* The windows of (i, j), lines 392-431: what the positions 0 .. 2L         *)
(* contribute, for every way the tests can come out, the test of line 385   *)
(* having given e and the cell K_TI[i, L] being stale when the window       *)
(* starts.  sign() sees one sign of the stale cell and one of the centre.   *)
Window(m, ins, i, j, e, stale) ==
    UNION {Product([l \in 0 .. LL(ins) - 1 |->
                      Position(m, ins, i, j, l, e,
                               K_TI_L(m, ins, i, j, l, e, stale),
                               IF l < ins.L THEN s[1] ELSE s[2])], LL(ins)) :
             s \in Signs(stale) \X Signs(K_TI_hor(m, ins, i, j, e))}

(* the weights W_K[i, l] can be for the contribution p of position l *)
W_K(p) == {Weight(p.n, d) : d \in p.d}

(* what K_hor[i, j] holds when the window starts: nothing assigns it *)
K_hor0(m, ins, i, j) == At(m, ins.K, i, j)

(* line 434: (k0 + ks) / (ws + eps) on the grid.  The weight of the centre  *)
(* is never 0, so ws > 0 and the eps of this line is below the grid.  When   *)
(* some weight is a multiple of 1 / eps these weights decide the quotient    *)
(* and the rest, k0 included, counts for 1 / InvEps of its value.            *)
Quotient(k0, ks, ws) ==
    IF ws.big > 0
    THEN RDiv(ks.big, ws.big) + RDiv(k0 + ks.fin, ws.big * InvEps)
    ELSE FDiv(k0 + ks.fin, ws.fin)

(* K_hor[i, j] after /=, line 434, for the window w and the value k0 that  *)
(* += of line 430 found in the cell: the quotient, which grows or falls    *)
(* with each weight, lies between those of the extreme weights             *)
K_hor(ins, k0, w) ==
    LET Q == {Quotient(k0,
                       PairSum([l \in 0 .. LL(ins) - 1 |-> Term(W[l], w[l].c)], LL(ins)),
                       PairSum(W, LL(ins))) :
                W \in Product([l \in 0 .. LL(ins) - 1 |-> W_K(w[l])], LL(ins))}
    IN SetMin(Q) .. SetMax(Q)

\* the memory after the window w of (i, j) has stored K_hor = q: the four
\* outputs of the pixel and the row of the scratch array K_TI
Store(m, ins, i, j, e, w, q) ==
    [m EXCEPT ![ins.K][<<i, j>>] = q,
              ![Kind[ins.K]][<<i, j>>] = "rounded",
              ![ins.KTI][<<i, j>>] = w[ins.L].k.v,
              ![Kind[ins.KTI]][<<i, j>>] = w[ins.L].k.kind,
              ![ins.Xmax][<<i, j>>] = X_max(m, ins, i, j, e),
              ![ins.Xmin][<<i, j>>] = X_min(m, ins, i, j, e),
              !["K_TI"] = SetRow(@, i, DOMAIN w, [l \in DOMAIN w |-> w[l].k.v]),
              ![Kind["K_TI"]] = SetRow(@, i, DOMAIN w, [l \in DOMAIN w |-> w[l].k.kind])]

(* the body of the loop of line 365 at column j: the memories it can leave *)
FilterCell(m, ins, i, j) ==
    UNION {UNION {{Store(m, ins, i, j, e, w, q) :
                     q \in K_hor(ins, K_hor0(m, ins, i, j), w)} :
                   w \in Window(m, ins, i, j, e, Scratch(m, i, ins.L))} :
             e \in EastMaxWestMin(m, ins, i, j)}

(* directional merge of the FC planes, lines 167-178, the test of line 170 *)
(* or 177 holding in the columns T                                          *)
(* The kinds stay those of the values the passes stored: a merge tests a    *)
(* cell before it assigns it, and no test reads the cell afterwards.        *)
MergeFCRow(m, ins, i, T) ==
    [m EXCEPT ![ins.dst] = SetRow(@, i, T, [j \in T |-> At(m, ins.src, i, j)])]

(* a merge of the TI plane that leaves the envelope planes on the vertical axis *)
MergeTIRow_chromaOnly(m, ins, i, T) ==
    [m EXCEPT ![ins.dst] = SetRow(@, i, T, [j \in T |-> At(m, ins.src, i, j)])]

(* directional merge of the TI planes and the envelope, lines 182-201, the  *)
(* test of line 187 or 198 holding in the columns T                         *)
MergeTIRow(m, ins, i, T) ==
    [m EXCEPT ![ins.dst] = SetRow(@, i, T, [j \in T |-> At(m, ins.src, i, j)]),
              ![ins.Xmaxv] = SetRow(@, i, T, [j \in T |-> At(m, ins.Xmax, i, j)]),
              ![ins.Xminv] = SetRow(@, i, T, [j \in T |-> At(m, ins.Xmin, i, j)])]

\* float32 and the grid compute an iteration of the window without rounding:
\* beta and the samples S are multiples of 1 / 16 and the grid holds the
\* product of beta and each of the magnitudes A
StepExact(beta, S, A) ==
    /\ beta % Dyadic = 0
    /\ \A x \in S : x % Dyadic = 0
    /\ \A a \in A : (beta * a) % Scale = 0

HorExact(m, ins, i, j, l) ==
    StepExact(ins.par,
              {At(m, ins.X, i, j), At(m, ins.X, i, j + l), At(m, ins.G, i, j + l),
               At(m, ins.G, i, ins.L + l), At(m, ins.X, i, j - ins.L + l + 1),
               At(m, ins.G, i, j - ins.L + l + 1)},
              {fabs(At(m, ins.X, i, j + l) - At(m, ins.G, i, j + l)),
               fabs(At(m, ins.X, i, j + l) - At(m, ins.G, i, ins.L + l)),
               fabs(At(m, ins.X, i, j - ins.L + l + 1)
                    - At(m, ins.G, i, j - ins.L + l + 1))})

VerExact(m, ins, i, j, l) ==
    StepExact(ins.par,
              {At(m, ins.X, i, j), At(m, ins.X, i, j + l + 1), At(m, ins.X, i, j + l),
               At(m, ins.G, i, j + l + 1), At(m, ins.X, i, j - ins.L + l),
               At(m, ins.G, i, j - ins.L + l)},
              {fabs(At(m, ins.X, i, j + l + 1) - At(m, ins.G, i, j + l + 1)),
               fabs(At(m, ins.X, i, j + l) + Scale - At(m, ins.G, i, j + l + 1)),
               fabs(At(m, ins.X, i, j - ins.L + l) - At(m, ins.G, i, j - ins.L + l))})

\* lines 510-511 test xe + bt against the running minimum s.Emin and store
\* xe + be: the iterations up to l do not round, or the stored value is the
\* tested one, or the test is no near tie
HorSure(m, ins, i, j, l, s) ==
    \/ \A k \in 0 .. l : HorExact(m, ins, i, j, k)
    \/ FMul(ins.par, fabs(At(m, ins.X, i, j + l) - At(m, ins.G, i, j + l)))
           = FMul(ins.par, fabs(At(m, ins.X, i, j + l) - At(m, ins.G, i, ins.L + l)))
    \/ fabs(At(m, ins.X, i, j + l)
            + FMul(ins.par, fabs(At(m, ins.X, i, j + l) - At(m, ins.G, i, ins.L + l)))
            - s.Emin) > Tol

\* lines 555-556 test xe + be against s.Emin and store xe + bs
VerSure(m, ins, i, j, l, s) ==
    \/ \A k \in 0 .. l : VerExact(m, ins, i, j, k)
    \/ FMul(ins.par, fabs(At(m, ins.X, i, j + l + 1) - At(m, ins.G, i, j + l + 1)))
           = FMul(ins.par, fabs(At(m, ins.X, i, j + l) + Scale
                                - At(m, ins.G, i, j + l + 1)))
    \/ fabs(At(m, ins.X, i, j + l + 1)
            + FMul(ins.par, fabs(At(m, ins.X, i, j + l + 1) - At(m, ins.G, i, j + l + 1)))
            - s.Emin) > Tol

\* the outcomes of a test the grid gives as t: that one when the grid decides
\* it as float32 does, else both
Outcomes(sure, t) == IF sure THEN {t} ELSE BOOLEAN

(* arbitration, horizontal contrast: one iteration of the loop of line 507, *)
(* the extrema it can leave                                                 *)
HorStep(m, ins, i, j, l, s) ==
    LET xe == At(m, ins.X, i, j + l)
        be == FMul(ins.par, fabs(xe - At(m, ins.G, i, j + l)))
        bt == FMul(ins.par, fabs(xe - At(m, ins.G, i, ins.L + l)))
        xw == At(m, ins.X, i, j - ins.L + l + 1)
        bw == FMul(ins.par, fabs(xw - At(m, ins.G, i, j - ins.L + l + 1)))
    IN {[Emax |-> IF xe - be > s.Emax THEN xe - be ELSE s.Emax,
         Emin |-> IF t THEN xe + be ELSE s.Emin,
         Wmax |-> IF xw - bw > s.Wmax THEN xw - bw ELSE s.Wmax,
         Wmin |-> IF xw + bw < s.Wmin THEN xw + bw ELSE s.Wmin] :
          t \in Outcomes(HorSure(m, ins, i, j, l, s), xe + bt < s.Emin)}

(* arbitration, vertical contrast: one iteration of the loop of line 552, *)
(* the extrema it can leave                                               *)
VerStep(m, ins, i, j, l, s) ==
    LET xe == At(m, ins.X, i, j + l + 1)
        be == FMul(ins.par, fabs(xe - At(m, ins.G, i, j + l + 1)))
        bs == FMul(ins.par, fabs(At(m, ins.X, i, j + l) + Scale
                                 - At(m, ins.G, i, j + l + 1)))
        xw == At(m, ins.X, i, j - ins.L + l)
        bw == FMul(ins.par, fabs(xw - At(m, ins.G, i, j - ins.L + l)))
    IN {[Emax |-> IF xe - be > s.Emax THEN xe - be ELSE s.Emax,
         Emin |-> IF t THEN xe + bs ELSE s.Emin,
         Wmax |-> IF xw - bw > s.Wmax THEN xw - bw ELSE s.Wmax,
         Wmin |-> IF xw + bw < s.Wmin THEN xw + bw ELSE s.Wmin] :
          t \in Outcomes(VerSure(m, ins, i, j, l, s), xe + be < s.Emin)}

RECURSIVE WindowLoop(_, _, _, _, _)
\* the running extrema iterations 0 .. n-1 can leave, from the centre sample
WindowLoop(m, ins, i, j, n) ==
    IF n = 0
    THEN LET x == At(m, ins.X, i, j)
         IN {[Emax |-> x, Emin |-> x, Wmax |-> x, Wmin |-> x]}
    ELSE IF ins.op = "contrastHor"
         THEN UNION {HorStep(m, ins, i, j, n - 1, s) : s \in WindowLoop(m, ins, i, j, n - 1)}
         ELSE UNION {VerStep(m, ins, i, j, n - 1, s) : s \in WindowLoop(m, ins, i, j, n - 1)}

(* lines 518-524 and 563-569: the values X_contrast[i, j] can be *)
X_contrast_axis(m, ins, i, j) ==
    {IF (s.Emax - s.Wmin) >= (s.Wmax - s.Emin)
     THEN s.Emax - s.Wmin
     ELSE s.Wmax - s.Emin : s \in WindowLoop(m, ins, i, j, ins.L)}

\* the kind of X_contrast[i, j], lines 524 and 569: with L = 0 the loops of
\* lines 507 and 552 do not run and the sample is subtracted from itself
X_contrast_kind(m, ins, i, j) ==
    IF ins.op = "contrastHor"
    THEN IF \A l \in 0 .. ins.L - 1 : HorExact(m, ins, i, j, l)
         THEN "exact" ELSE "rounded"
    ELSE IF \A l \in 0 .. ins.L - 1 : VerExact(m, ins, i, j, l)
         THEN "exact" ELSE "rounded"

\* the body of the loop of line 500 or 545 at column j: the memories it can
\* leave
ContrastCell(m, ins, i, j) ==
    {[m EXCEPT ![ins.dst][<<i, j>>] = x,
               ![Kind[ins.dst]][<<i, j>>] = X_contrast_kind(m, ins, i, j)] :
       x \in X_contrast_axis(m, ins, i, j)}

RECURSIVE ColLoop(_, _, _, _)
\* the memories the first n columns of row i of a filter or a contrast loop
\* can leave, visited in increasing order
ColLoop(m, ins, i, n) ==
    IF n = 0 THEN {m}
    ELSE UNION {IF ins.op = "filter"
                THEN FilterCell(m1, ins, i, ins.L + n - 1)
                ELSE ContrastCell(m1, ins, i, ins.L + n - 1) :
                  m1 \in ColLoop(m, ins, i, n - 1)}

(* the loop of line 365 over the columns of row i *)
FilterRow(m, ins, i) == ColLoop(m, ins, i, Cardinality(Cols(ins)))

(* the loop of line 500 or 545 over the columns of row i *)
ContrastRow(m, ins, i) == ColLoop(m, ins, i, Cardinality(Cols(ins)))

(* X_contrast = X_contrast_ver is the same buffer, lines 573-577, the test  *)
(* of line 576 holding in the columns T                                     *)
ContrastMergeRow(m, ins, i, T) ==
    [m EXCEPT ![ins.dst] = SetRow(@, i, T, [j \in T |-> At(m, ins.src, i, j)])]

(* arbitration weight, line 583 *)
alpha_K(m, ins, i, j) ==
    fmin(FDiv(fmax(At(m, ins.src, i, j), 0),
              fmin(fmax(At(m, ins.Xmax, i, j) - At(m, ins.Xmin, i, j), cfg.gamma_2),
                   cfg.gamma_1)),
         Scale)

(* line 584 *)
K_out(m, ins, i, j) ==
    FMul(Scale - alpha_K(m, ins, i, j), At(m, ins.KTI, i, j))
    + FMul(alpha_K(m, ins, i, j), At(m, ins.K, i, j))

BlendRow(m, ins, i) ==
    LET J == Cols(ins)
    IN [m EXCEPT ![ins.dst] = SetRow(@, i, J, [j \in J |-> K_out(m, ins, i, j)])]

\* green rebuilt from the luma plane instead of copied
I_out_luma(m, i, j, ch) ==
    IF ch = 0 THEN At(m, "K_rout", i, j) + At(m, "G_in", i, j)
    ELSE IF ch = 1 THEN At(m, "Y_in", i, j)
    ELSE At(m, "K_bout", i, j) + At(m, "G_in", i, j)

(* final RGB conversion, lines 211-215; I_out[i, j, ch] is cell (i, 3j + ch) *)
I_out(m, i, j, ch) ==
    IF ch = 0 THEN At(m, "K_rout", i, j) + At(m, "G_in", i, j)
    ELSE IF ch = 1 THEN At(m, "G_in", i, j)
    ELSE At(m, "K_bout", i, j) + At(m, "G_in", i, j)

ReconstructRow(m, ins, i) ==
    LET J == 0 .. 3 * ins.c - 1
    IN [m EXCEPT !["I_out"] =
           SetRow(@, i, J, [q \in J |-> I_out(m, i, q \div 3, q % 3)])]

\* the outcomes of the test of a merge at column j of row i
Test(m, ins, i, j) ==
    IF ins.op = "contrastMerge" THEN Larger(m, ins.src, ins.dst, i, j)
    ELSE Smaller(m, ins.src, i, j, ins.dst, i, j)

\* the sets of columns of row i in which the body of the loop can assign: in
\* a merge the columns where the test holds, for each way the tests can come
\* out; in any other loop all the columns
Tests(m, ins, i) ==
    IF ins.op \in {"mergeFC", "mergeTI", "contrastMerge"}
    THEN LET sure == {j \in Cols(ins) : Test(m, ins, i, j) = {TRUE}}
             open == {j \in Cols(ins) : Test(m, ins, i, j) = BOOLEAN}
         IN {sure \cup D : D \in SUBSET open}
    ELSE {Cols(ins)}

\* the body of any loop, its tests holding in the columns T: the memories it
\* can leave
Body(m, ins, i, T) ==
    CASE ins.op = "split" -> {SplitRow(m, ins, i)}
      [] ins.op = "transpose" -> {TransposeRow(m, ins, i)}
      [] ins.op = "grad" -> {GradRow(m, ins, i)}
      [] ins.op = "filter" -> FilterRow(m, ins, i)
      [] ins.op = "mergeFC" -> {MergeFCRow(m, ins, i, T)}
      [] ins.op = "mergeTI" -> {MergeTIRow(m, ins, i, T)}
      [] ins.op \in {"contrastHor", "contrastVer"} -> ContrastRow(m, ins, i)
      [] ins.op = "contrastMerge" -> {ContrastMergeRow(m, ins, i, T)}
      [] ins.op = "blend" -> {BlendRow(m, ins, i)}
      [] ins.op = "reconstruct" -> {ReconstructRow(m, ins, i)}

\* np.empty for every buffer of ins.alloc the model keeps
Alloc(m, ins, h) ==
    [b \in Kept |->
        IF \E a \in ins.alloc : a[1] = b
        THEN LET a == CHOOSE a \in ins.alloc : a[1] = b
             IN Empty(h, a[2], a[3])
        ELSE IF \E a \in ins.alloc : a[1] \in DOMAIN Kind /\ Kind[a[1]] = b
        THEN LET a == CHOOSE a \in ins.alloc : a[1] \in DOMAIN Kind /\ Kind[a[1]] = b
             IN [p \in Cells(a[2], a[3]) |-> "exact"]
        ELSE m[b]]

---------------------------------------------------------------------------
(* Access sets of the worker of row i: the cells <<buffer, row, column>>   *)
(* its body writes, and the cells it reads before having written them.     *)

\* one scratch cell shared by all the workers
ScratchRow_shared(i) == 0

\* the row of a per-row scratch array the worker of row i uses
ScratchRow(i) == i

Acc(b, i, J) == {<<b, i, j>> : j \in J}

\* the columns j + d, for j a column of the loop and d an offset of D
Shift(ins, D) == {j + d : j \in Cols(ins), d \in D}

FilterWrites(ins, i) ==
    IF Cols(ins) = {} THEN {}
    ELSE UNION {Acc(b, i, Cols(ins)) : b \in {ins.K, ins.KTI, ins.Xmax, ins.Xmin}}
         \cup UNION {Acc(b, ScratchRow(i), 0 .. LL(ins) - 1) :
                       b \in {"X_TImax", "X_TImin", "X_TI", "X_pf", "K_TI", "W_K"}}
         \cup UNION {Acc(b, ScratchRow(i), {0}) :
                       b \in {"W_K_sum", "X_Emax", "X_Emin", "X_Wmax", "X_Wmin"}}

FilterReads(ins, i) ==
    IF Cols(ins) = {} THEN {}
    ELSE UNION {Acc(b, i, Shift(ins, -ins.L .. ins.L)) :
                  b \in {ins.X, ins.G, ins.Y, "grad_X", "grad_G"}}
         \cup Acc(ins.K, i, Cols(ins))
         \cup (IF ins.L > 0 THEN Acc("K_TI", ScratchRow(i), {ins.L}) ELSE {})

ContrastWrites(ins, i) ==
    IF Cols(ins) = {} THEN {}
    ELSE Acc(ins.dst, i, Cols(ins))
         \cup UNION {Acc(b, ScratchRow(i), {0}) :
                       b \in IF ins.op = "contrastHor"
                             THEN {"Xp_max_hor", "Xp_min_hor", "X_Emax_hor",
                                   "X_Emin_hor", "X_Wmax_hor", "X_Wmin_hor"}
                             ELSE {"Xp_max_ver", "Xp_min_ver", "X_Emax_ver",
                                   "X_Emin_ver", "X_Wmax_ver", "X_Wmin_ver"}}

ContrastReads(ins, i) ==
    LET W == 0 .. ins.L - 1
    IN IF ins.op = "contrastHor"
       THEN Acc(ins.X, i, Cols(ins) \cup Shift(ins, W) \cup Shift(ins, {l - ins.L + 1 : l \in W}))
            \cup Acc(ins.G, i, Shift(ins, W) \cup Shift(ins, {l - ins.L + 1 : l \in W})
                               \cup (IF Cols(ins) = {} THEN {} ELSE {ins.L + l : l \in W}))
       ELSE Acc(ins.X, i, Cols(ins) \cup Shift(ins, W) \cup Shift(ins, {l + 1 : l \in W})
                          \cup Shift(ins, {l - ins.L : l \in W}))
            \cup Acc(ins.G, i, Shift(ins, {l + 1 : l \in W}) \cup Shift(ins, {l - ins.L : l \in W}))

(* lines 185-201: the two TI planes are read for the test, the horizontal   *)
(* envelope only in the columns T where the test holds; the vertical         *)
(* envelope is assigned, never read.                                         *)
MergeTIReads(ins, i, T) ==
    Acc(ins.src, i, Cols(ins)) \cup Acc(ins.dst, i, Cols(ins))
    \cup Acc(ins.Xmax, i, T) \cup Acc(ins.Xmin, i, T)

\* the cells row i of the loop writes, the tests of a merge holding in the
\* columns T
Writes(ins, i, T) ==
    CASE ins.op = "split" ->
           UNION {Acc(b, i, Cols(ins)) : b \in {"R_in", "G_in", "B_in", "Y_in"}}
      [] ins.op = "transpose" -> {<<ins.dst, j, i>> : j \in Cols(ins)}
      [] ins.op = "grad" -> Acc(ins.dst, i, Cols(ins))
      [] ins.op = "filter" -> FilterWrites(ins, i)
      [] ins.op = "mergeFC" -> Acc(ins.dst, i, T)
      [] ins.op = "mergeTI" ->
           UNION {Acc(b, i, T) : b \in {ins.dst, ins.Xmaxv, ins.Xminv}}
      [] ins.op \in {"contrastHor", "contrastVer"} -> ContrastWrites(ins, i)
      [] ins.op = "contrastMerge" -> Acc(ins.dst, i, T)
      [] ins.op = "blend" ->
           Acc(ins.dst, i, Cols(ins)) \cup Acc("alpha_K", ScratchRow(i), {0})
      [] ins.op = "reconstruct" -> Acc("I_out", i, 0 .. 3 * ins.c - 1)

\* the cells row i of the loop reads before it has written them
Reads(ins, i, T) ==
    CASE ins.op = "split" -> {}
      [] ins.op = "transpose" -> Acc(ins.src, i, Cols(ins))
      [] ins.op = "grad" -> Acc(ins.src, i, Cols(ins) \cup Shift(ins, {-1}))
      [] ins.op = "filter" -> FilterReads(ins, i)
      [] ins.op = "mergeFC" -> Acc(ins.src, i, Cols(ins)) \cup Acc(ins.dst, i, Cols(ins))
      [] ins.op = "mergeTI" -> MergeTIReads(ins, i, T)
      [] ins.op \in {"contrastHor", "contrastVer"} -> ContrastReads(ins, i)
      [] ins.op = "contrastMerge" ->
           Acc(ins.src, i, Cols(ins)) \cup Acc(ins.dst, i, Cols(ins))
      [] ins.op = "blend" ->
           UNION {Acc(b, i, Cols(ins)) :
                    b \in {ins.src, ins.K, ins.KTI, ins.Xmax, ins.Xmin}}
      [] ins.op = "reconstruct" ->
           UNION {Acc(b, i, Cols(ins)) : b \in {"K_rout", "K_bout", "G_in"}}

---------------------------------------------------------------------------
(* Inputs                                                                  *)

MaxPat == 3

\* a sample of texture k, one of the levels 0, 1/2 and 1
Tex(k, i, j) == (Scale \div 2) * ((k * (i + 2 * j) + (k \div 2) + i * j) % 3)

\* image k: grey (R = G = B) for even k, coloured for odd k
Image(k, r, c) ==
    [M |-> r, N |-> c,
     px |-> [p \in (0 .. r - 1) \X (0 .. c - 1) \X (0 .. 2) |->
               IF k % 2 = 0 THEN Tex(k \div 2 + 1, p[1], p[2])
               ELSE Tex(k + p[3], p[1], p[2])]]

Shapes == {<<3, 4>>, <<1, 5>>}

\* a 3 x 4 image of coloured edges, in half levels <<R, G, B>>
FringeRows ==
    << << <<2, 2, 1>>, <<1, 1, 0>>, <<2, 2, 2>>, <<1, 2, 0>> >>,
       << <<2, 2, 2>>, <<0, 2, 1>>, <<1, 0, 1>>, <<1, 1, 0>> >>,
       << <<2, 0, 1>>, <<1, 1, 2>>, <<1, 2, 2>>, <<1, 0, 0>> >> >>

Fringe ==
    [M |-> 3, N |-> 4,
     px |-> [p \in (0 .. 2) \X (0 .. 3) \X (0 .. 2) |->
               (Scale \div 2) * FringeRows[p[1] + 1][p[2] + 1][p[3] + 1]]]

\* a 3 x 4 image whose red transient is weaker along the rows at pixel (1, 2)
EdgeRows ==
    << << <<1, 2, 1>>, <<1, 1, 2>>, <<0, 0, 0>>, <<0, 0, 0>> >>,
       << <<1, 1, 1>>, <<2, 1, 0>>, <<1, 0, 2>>, <<0, 0, 0>> >>,
       << <<1, 0, 2>>, <<2, 0, 2>>, <<1, 1, 0>>, <<0, 1, 2>> >> >>

Edge ==
    [M |-> 3, N |-> 4,
     px |-> [p \in (0 .. 2) \X (0 .. 3) \X (0 .. 2) |->
               (Scale \div 2) * EdgeRows[p[1] + 1][p[2] + 1][p[3] + 1]]]

\* a 3 x 4 image in the levels 0.05, 0.35 and 0.65, which float32 does not
\* hold: its passes round, and some of its merge tests are near ties
DecimalRows ==
    << << <<1, 0, 0>>, <<2, 1, 2>>, <<1, 0, 0>>, <<1, 1, 1>> >>,
       << <<2, 0, 2>>, <<1, 1, 0>>, <<0, 0, 0>>, <<0, 1, 0>> >>,
       << <<0, 2, 1>>, <<1, 1, 1>>, <<1, 2, 1>>, <<0, 1, 1>> >> >>

Decimal ==
    [M |-> 3, N |-> 4,
     px |-> [p \in (0 .. 2) \X (0 .. 3) \X (0 .. 2) |->
               Pct(5) + Pct(30) * DecimalRows[p[1] + 1][p[2] + 1][p[3] + 1]]]

\* a 3 x 4 image, in hundredths <<R, G, B>>, whose blue pass along the rows
\* meets crossed bounds with X_pf next to X_TImax and a chroma next to tau
TieRows ==
    << << <<56, 44, 100>>, <<50, 100, 50>>, <<44, 44, 44>>, <<44, 50, 6>> >>,
       << <<94, 50, 6>>, <<56, 6, 50>>, <<94, 44, 50>>, <<50, 94, 50>> >>,
       << <<6, 56, 94>>, <<56, 56, 6>>, <<0, 56, 94>>, <<50, 50, 56>> >> >>

Tie ==
    [M |-> 3, N |-> 4,
     px |-> [p \in (0 .. 2) \X (0 .. 3) \X (0 .. 2) |->
               Pct(TieRows[p[1] + 1][p[2] + 1][p[3] + 1])]]

Inputs ==
    {Image(k, s[1], s[2]) : k \in 0 .. MaxPat, s \in Shapes}
    \cup {Fringe, Edge, Decimal, Tie}

Default == [L_hor |-> 1, L_ver |-> 1, rho |-> <<Pct(-25), Pct(138), Pct(-13)>>,
            tau |-> Pct(6), alpha_R |-> Pct(50), alpha_B |-> Pct(100),
            beta_R |-> Pct(100), beta_B |-> Pct(50),
            gamma_1 |-> Pct(50), gamma_2 |-> Pct(25)]

Configs == {Default,
            [Default EXCEPT !.tau = 2 * Scale],
            [Default EXCEPT !.L_ver = 0],
            [Default EXCEPT !.L_hor = 2],
            [Default EXCEPT !.gamma_1 = Pct(25), !.gamma_2 = Pct(50)],
            [Default EXCEPT !.rho = <<Pct(-25), Pct(138), Pct(-13), Pct(7)>>]}

---------------------------------------------------------------------------
(* The state machine                                                       *)

Init ==
    /\ I_in \in Inputs
    /\ cfg \in Configs
    /\ heap \in 0 .. MaxJunk
    /\ pc = 0
    /\ cur = Ins0
    /\ todo = {}
    /\ mem = [b \in Kept |-> NoPlane]
    /\ mem0 = [b \in Kept |-> NoPlane]
    /\ written = {}
    /\ result = NoPlane

\* the sequential code between two loops: the allocations, then prange starts
Enter ==
    /\ todo = {}
    /\ pc < Len(Program)
    /\ cur' = Program[pc + 1]
    /\ mem' = Alloc(mem, cur', heap)
    /\ mem0' = mem'
    /\ todo' = Rows(cur')
    /\ written' = {w \in written : \A a \in cur'.alloc : a[1] # w[1]}
    /\ pc' = pc + 1
    /\ UNCHANGED <<I_in, cfg, heap, result>>

\* the worker of row i of the current loop runs the loop body, which assigns
\* in the columns T and leaves the memory as one of after
RowStep(op, i, T, after) ==
    /\ cur.op = op
    /\ i \in todo
    /\ mem' \in after
    /\ todo' = todo \ {i}
    /\ written' = written \cup Writes(cur, i, T)
    /\ UNCHANGED <<I_in, cfg, heap, pc, cur, mem0, result>>

SplitStep == \E i \in todo : RowStep("split", i, Cols(cur), {SplitRow(mem, cur, i)})

TransposeStep == \E i \in todo : RowStep("transpose", i, Cols(cur), {TransposeRow(mem, cur, i)})

GradStep == \E i \in todo : RowStep("grad", i, Cols(cur), {GradRow(mem, cur, i)})

FilterStep == \E i \in todo : RowStep("filter", i, Cols(cur), FilterRow(mem, cur, i))

MergeFCStep ==
    \E i \in todo : \E T \in Tests(mem, cur, i) :
        RowStep("mergeFC", i, T, {MergeFCRow(mem, cur, i, T)})

MergeTIStep ==
    \E i \in todo : \E T \in Tests(mem, cur, i) :
        RowStep("mergeTI", i, T, {MergeTIRow(mem, cur, i, T)})

ContrastHorStep == \E i \in todo : RowStep("contrastHor", i, Cols(cur), ContrastRow(mem, cur, i))

ContrastVerStep == \E i \in todo : RowStep("contrastVer", i, Cols(cur), ContrastRow(mem, cur, i))

ContrastMergeStep ==
    \E i \in todo : \E T \in Tests(mem, cur, i) :
        RowStep("contrastMerge", i, T, {ContrastMergeRow(mem, cur, i, T)})

BlendStep == \E i \in todo : RowStep("blend", i, Cols(cur), {BlendRow(mem, cur, i)})

ReconstructStep == \E i \in todo : RowStep("reconstruct", i, Cols(cur), {ReconstructRow(mem, cur, i)})

\* return np.asarray(I_out), line 217
Return ==
    /\ todo = {}
    /\ cur.op = "reconstruct"
    /\ pc = Len(Program)
    /\ result' = mem["I_out"]
    /\ pc' = pc + 1
    /\ UNCHANGED <<I_in, cfg, heap, cur, todo, mem, mem0, written>>

Next ==
    \/ Enter
    \/ SplitStep
    \/ TransposeStep
    \/ GradStep
    \/ FilterStep
    \/ MergeFCStep
    \/ MergeTIStep
    \/ ContrastHorStep
    \/ ContrastVerStep
    \/ ContrastMergeStep
    \/ BlendStep
    \/ ReconstructStep
    \/ Return

Spec == Init /\ [][Next]_vars

---------------------------------------------------------------------------
(* The call run sequentially, row by row, on a heap h                      *)

RECURSIVE SeqLoop(_, _, _)
\* the memories the rows of S can leave, processed in increasing order
SeqLoop(m, ins, S) ==
    IF S = {} THEN {m}
    ELSE LET i == SetMax(S)
         IN UNION {UNION {Body(m1, ins, i, T) : T \in Tests(m1, ins, i)} :
                     m1 \in SeqLoop(m, ins, S \ {i})}

RECURSIVE RunSeq(_, _)
\* the memories the first k loops can leave
RunSeq(k, h) ==
    IF k = 0 THEN {[b \in Kept |-> NoPlane]}
    ELSE UNION {SeqLoop(Alloc(m, Program[k], h), Program[k], Rows(Program[k])) :
                  m \in RunSeq(k - 1, h)}

Returned == pc = Len(Program) + 1

Pixels == Cells(M, N)

\* the invariants section 3 of the specification puts on a call; the source
\* states and checks none of them but the three coefficients of rho
ValidCall ==
    /\ cfg.L_hor >= 0 /\ cfg.L_ver >= 0
    /\ 2 * cfg.L_hor + 1 <= N /\ 2 * cfg.L_ver + 1 <= M
    /\ cfg.gamma_1 >= cfg.gamma_2 /\ cfg.gamma_2 > 0
    /\ Len(cfg.rho) = 3

\* the pixels both passes filter: a pass with half-window L writes the rows
\* and the columns L .. dim - L - 1 of its planes (lines 364-365)
Filtered(L, r, c) == (L .. r - L - 1) \X (L .. c - L - 1)

Interior ==
    {p \in Pixels : /\ p \in Filtered(cfg.L_hor, M, N)
                    /\ <<p[2], p[1]>> \in Filtered(cfg.L_ver, N, M)}

Gray == \A p \in Pixels : I_in.px[<<p[1], p[2], 0>>] = I_in.px[<<p[1], p[2], 1>>]
                          /\ I_in.px[<<p[1], p[2], 2>>] = I_in.px[<<p[1], p[2], 1>>]

FilterDone == cur.op = "filter" /\ todo = {}

---------------------------------------------------------------------------
(* Claims                                                                  *)

\* C1: on a grey image (R = G = B) and valid parameters the arbitrated chroma
\* of both channels is 0 at every interior pixel and the output equals the
\* input there.
CE_C1 ==
    (Returned /\ Gray /\ ValidCall) =>
        \A p \in Interior :
            /\ mem["K_rout"][p] = 0
            /\ mem["K_bout"][p] = 0
            /\ \A ch \in 0 .. 2 : result[<<p[1], 3 * p[2] + ch>>] = I_in.px[<<p[1], p[2], ch>>]

\* C2: for valid parameters (the input samples are in [0, 1]) every sample of
\* the returned image lies in [0, 1].
CE_C2 ==
    (Returned /\ ValidCall) => \A q \in DOMAIN result : result[q] >= 0 /\ result[q] <= Scale

\* C3: the image a valid call returns is the same whatever the freshly allocated buffers
\* held and however the row workers were scheduled: it is an image a
\* sequential run can return on any heap.
CE_C3 ==
    (Returned /\ ValidCall) =>
        \A h \in 0 .. MaxJunk : \E m \in RunSeq(Len(Program), h) : result = m["I_out"]

\* C4: in a valid call the transposes back, the merges and the arbitration
\* read no plane cell that was never written since np.empty returned the plane.
CE_C4 ==
    (ValidCall /\ cur.op \in {"transpose", "mergeFC", "mergeTI", "contrastMerge", "blend"}) =>
        \A i \in todo : \A T \in Tests(mem, cur, i) : Reads(cur, i, T) \subseteq written

\* C5: a call with invalid parameters runs no filtering stage (no loop after
\* the channel split) and returns no image.
CE_C5 ==
    LET bad == \/ cfg.L_hor <= 0 \/ cfg.L_ver <= 0
               \/ 2 * cfg.L_hor + 1 > N \/ 2 * cfg.L_ver + 1 > M
               \/ cfg.gamma_2 > cfg.gamma_1
               \/ Len(cfg.rho) # 3
    IN bad => (cur.op \in {"-", "split"} /\ ~Returned /\ result = NoPlane)

\* C6: in every loop the workers of two different rows write disjoint cells
\* and none reads a cell another writes, whichever way the tests of a merge
\* come out (a row writes and reads the most when they all hold), and the
\* memory is one the finished rows leave when run one after the other in
\* increasing order.
Thm_C6 ==
    /\ \A i1 \in Rows(cur) : \A i2 \in Rows(cur) \ {i1} :
           Writes(cur, i1, Cols(cur))
               \cap (Writes(cur, i2, Cols(cur)) \cup Reads(cur, i2, Cols(cur))) = {}
    /\ mem \in SeqLoop(mem0, cur, Rows(cur) \ todo)

\* a row of the filter loop is finished while a lower row is still to run
Wit_C6 ==
    /\ cur.op = "filter"
    /\ \E i \in todo : \E d \in Rows(cur) \ todo : d > i

\* C7: at every pixel, border included, the output green is the input green,
\* the output red is K_r_out + G and the output blue is K_b_out + G, in an
\* M x N x 3 array.
Thm_C7 ==
    Returned =>
        /\ DOMAIN result = Cells(M, 3 * N)
        /\ \A p \in Pixels :
              LET g == I_in.px[<<p[1], p[2], 1>>]
              IN /\ result[<<p[1], 3 * p[2] + 1>>] = g
                 /\ result[<<p[1], 3 * p[2]>>] = mem["K_rout"][p] + g
                 /\ result[<<p[1], 3 * p[2] + 2>>] = mem["K_bout"][p] + g

\* a returned image whose border pixel (0, 0) has a nonzero red chroma
Wit_C7 == Returned /\ mem["K_rout"][<<0, 0>>] # 0 /\ mem["K_rout"][<<0, 0>>] # mem["K_bout"][<<0, 0>>]

\* C8: a call of ti_and_ca_filtering1D computes K, K_TI, X_max and X_min at
\* every row i in [0, M) and every column j with L <= j < N - L.
CE_C8 ==
    FilterDone =>
        \A i \in 0 .. cur.r - 1 : \A j \in cur.L .. cur.c - cur.L - 1 :
            \A b \in {cur.K, cur.KTI, cur.Xmax, cur.Xmin} : <<b, i, j>> \in written

\* C9: in a valid call, at every position of the window of (i, j), the sign
\* test of the weight and the reference of clip use the TI chroma of position L
\* of that window, so K[i, j] is a value accumulated with that reference.
CE_C9 ==
    (ValidCall /\ FilterDone) =>
        \A i \in Rows(cur) : \A j \in Cols(cur) :
            \E e \in EastMaxWestMin(mem0, cur, i, j) :
                \E w \in Window(mem0, cur, i, j, e, K_TI_hor(mem0, cur, i, j, e)) :
                    mem[cur.K][<<i, j>>] \in K_hor(cur, K_hor0(mem0, cur, i, j), w)

(* the cell K_TI[i, L] as the window of (i, j) of the finished loop found it: *)
(* the centre the window before it stored, or what np.empty left            *)
StaleAt(i, j) ==
    IF j > cur.L
    THEN [v |-> At(mem, cur.KTI, i, j - 1), kind |-> KindAt(mem, cur.KTI, i, j - 1)]
    ELSE Scratch(mem0, i, cur.L)

\* C10: in a valid call K[i, j] is the sum of the weighted clipped chroma of
\* the window over the sum of the weights plus eps, accumulated from zero.
CE_C10 ==
    (ValidCall /\ FilterDone) =>
        \A i \in Rows(cur) : \A j \in Cols(cur) :
            \E e \in EastMaxWestMin(mem0, cur, i, j) :
                \E w \in Window(mem0, cur, i, j, e, StaleAt(i, j)) :
                    mem[cur.K][<<i, j>>] \in K_hor(cur, 0, w)

(* the windows of the filter loop that has just finished: row, column,       *)
(* position and outcome of the test of line 385                              *)
Windows ==
    {w \in Rows(cur) \X Cols(cur) \X (0 .. LL(cur) - 1) \X BOOLEAN :
       w[4] \in EastMaxWestMin(mem0, cur, w[1], w[2])}

Channels ==
    {[Kh |-> "K_r_hor", Kv |-> "K_r_verT", K |-> "K_r_ver",
      Th |-> "K_rTI_hor", Tv |-> "K_rTI_verT", T |-> "K_rTI_ver",
      maxh |-> "R_max_hor", maxv |-> "R_max_verT", max |-> "R_max_ver",
      minh |-> "R_min_hor", minv |-> "R_min_verT", min |-> "R_min_ver"],
     [Kh |-> "K_b_hor", Kv |-> "K_b_verT", K |-> "K_b_ver",
      Th |-> "K_bTI_hor", Tv |-> "K_bTI_verT", T |-> "K_bTI_ver",
      maxh |-> "B_max_hor", maxv |-> "B_max_verT", max |-> "B_max_ver",
      minh |-> "B_min_hor", minv |-> "B_min_verT", min |-> "B_min_ver"]}

(* the last of the four merge loops (lines 196-201) has finished *)
MergeDone == cur.op = "mergeTI" /\ cur.dst = "K_rTI_ver" /\ todo = {}

(* the grid orders the magnitudes of hor[i, j] and of the value the vertical  *)
(* pass left at (j, i) as float32 orders them: the test of the merge on the  *)
(* two cells has one outcome                                                 *)
Ordered(hor, ver, i, j) == Smaller(mem, hor, i, j, ver, j, i) # BOOLEAN

(* the magnitude of hor[i, j] is below that of the vertical value of the pixel *)
HorLess(hor, ver, i, j) == fabs(At(mem, hor, i, j)) < fabs(At(mem, ver, j, i))

(* the TI chroma and the envelope of pixel (i, j): merged, and as each pass   *)
(* left them                                                                 *)
Triple(ch, i, j) == <<At(mem, ch.T, i, j), At(mem, ch.max, i, j), At(mem, ch.min, i, j)>>

TripleHor(ch, i, j) == <<At(mem, ch.Th, i, j), At(mem, ch.maxh, i, j), At(mem, ch.minh, i, j)>>

TripleVer(ch, i, j) == <<At(mem, ch.Tv, j, i), At(mem, ch.maxv, j, i), At(mem, ch.minv, j, i)>>

ContrastVerDone == cur.op = "contrastVer" /\ todo = {}

\* C13: with L_hor = L_ver, the vertical biased contrast is the horizontal
\* computation applied to the transposed planes: at every interior pixel the
\* value the vertical loop stored is one the horizontal loop's code gives on
\* (Xt, Gt).
CE_C13 ==
    (ValidCall /\ ContrastVerDone /\ cfg.L_hor = cfg.L_ver) =>
        \A i \in Rows(cur) : \A j \in Cols(cur) :
            At(mem, cur.dst, i, j) \in
                X_contrast_axis(mem, [cur EXCEPT !.op = "contrastHor"], i, j)

\* C14: the TI chroma the filter stores at a pixel lies between 0 and
\* X - G of that pixel, inclusive (0 <= K_TI <= X - G when X > G, and
\* X - G <= K_TI <= 0 otherwise), and the stored envelope satisfies
\* X_min <= X <= X_max.
Thm_C14 ==
    FilterDone =>
        \A i \in Rows(cur) : \A j \in Cols(cur) :
            LET k == At(mem, cur.KTI, i, j)
                x == At(mem, cur.X, i, j)
                d == x - At(mem, cur.G, i, j)
            IN /\ (d > 0) => (0 <= k /\ k <= d)
               /\ (d <= 0) => (d <= k /\ k <= 0)
               /\ At(mem, cur.Xmin, i, j) <= x
               /\ x <= At(mem, cur.Xmax, i, j)

(* a finished filter loop with a pixel whose chroma the TI stage reduced but *)
(* did not remove                                                            *)
Wit_C14 ==
    /\ FilterDone /\ cfg = Default
    /\ \E i \in Rows(cur) : \E j \in Cols(cur) :
           /\ At(mem, cur.KTI, i, j) # 0
           /\ At(mem, cur.KTI, i, j) # At(mem, cur.X, i, j) - At(mem, cur.G, i, j)

====
